---- MODULE Spec2Model ----
(***************************************************************************)
(* A model of birdwatcher.go: the route builder (isModuleEnabled,          *)
(* makeRouter), the access-log adapter (MyLogger.Write) and the startup    *)
(* sequence of main.                                                       *)
(*                                                                         *)
(* Three specifications share the variables:                               *)
(*   Spec        main from process start to serving or termination         *)
(*   SpecRouter  main from the router build on, over every whitelist of    *)
(*               bounded length, followed by GET requests                  *)
(*   SpecLog     the serving process, with concurrent request handlers     *)
(*               calling MyLogger.Write                                    *)
(***************************************************************************)
EXTENDS Naturals, Sequences, FiniteSets

VARIABLES
    pc,             \* main's position
    args,           \* the command line: the value of -6 and -worker-pool-size
    file,           \* what LoadConfigs will return for the -config file
    conf,           \* conf, once loaded
    birdConf,       \* the local birdConf of main
    IPVersion,      \* bird.IPVersion
    ipWrites,       \* history: assignments main made to bird.IPVersion
    WorkerPoolSize, \* bird.WorkerPoolSize
    ClientConf,     \* bird.ClientConf
    router,         \* r, the routes registered on the httprouter
    listener,       \* the listener of http.ListenAndServe / ListenAndServeTLS
    binds,          \* history: calls of ListenAndServe / ListenAndServeTLS
    fatal,          \* which log.Fatal ended the process, "" if none
    stages,         \* history: the startup stages entered, in order
    request,        \* the last GET path served
    response,       \* the router's answer to it
    hpc,            \* each request handler's position around MyLogger.Write
    harg,           \* each handler's argument p of Write
    hcall,          \* history: the index in calls of each handler's call
    hret,           \* each handler's return value of Write
    calls,          \* history: the arguments of the Write calls, in call order
    printed,        \* history: the strings handed to logger.Print, in order
    stdout          \* the bytes the logger wrote to os.Stdout

mainVars == <<pc, args, file, conf, birdConf, IPVersion, ipWrites,
              WorkerPoolSize, ClientConf, router, listener, binds, fatal, stages>>
httpVars == <<request, response>>
logVars  == <<hpc, harg, hcall, hret, calls, printed, stdout>>
vars     == <<mainVars, httpVars, logVars>>

----------------------------------------------------------------------------
(* Bounds *)

\* the longest whitelist SpecRouter draws
MaxWhitelist == 2
\* the number of Write calls in one behaviour of SpecLog
MaxWrites == 2
\* the number of concurrent request handlers
NumHandlers == 2

----------------------------------------------------------------------------
(* The route builder *)

\* The module names makeRouter tests for, in the order it tests them.
AllModules ==
    <<"status", "protocols", "protocols_bgp", "symbols", "symbols_tables",
      "symbols_protocols", "routes_protocol", "routes_table",
      "routes_count_protocol", "routes_count_table", "routes_filtered",
      "routes_noexport", "routes_prefixed", "route_net", "routes_peer",
      "routes_dump">>

KnownModules == {AllModules[i] : i \in 1..Len(AllModules)}

\* Whitelist entries that are none of the known names.
UnknownModules == {"Status", "bogus"}

ModuleNames == KnownModules \cup UnknownModules

\* strings.ToLower on the module names of the model
ToLower(s) ==
    IF s = "Status" THEN "status" ELSE s

\* A mutant of isModuleEnabled: the comparison folds case.
isModuleEnabledFold(module, modulesEnabled) ==
    \E i \in 1..Len(modulesEnabled) : ToLower(modulesEnabled[i]) = ToLower(module)

\* A mutant of isModuleEnabled: the scan stops at the first entry.
isModuleEnabledFirst(module, modulesEnabled) ==
    Len(modulesEnabled) > 0 /\ modulesEnabled[1] = module

RECURSIVE scanFrom(_, _, _)
\* the loop of isModuleEnabled from entry i on
scanFrom(module, modulesEnabled, i) ==
    IF i > Len(modulesEnabled) THEN FALSE
    ELSE IF modulesEnabled[i] = module THEN TRUE
    ELSE scanFrom(module, modulesEnabled, i + 1)

isModuleEnabled(module, modulesEnabled) ==
    scanFrom(module, modulesEnabled, 1)

\* httprouter.New(): no route registered
New == << >>

\* r.GET(path, handle): one more route on r
GET(r, path, handle) ==
    Append(r, [method |-> "GET", path |-> path, handle |-> handle])

Lit(s) == [kind |-> "static", name |-> s]
Param(n) == [kind |-> "param", name |-> n]

\* The segments of the path patterns makeRouter registers: a segment written
\* :name is a named placeholder.
Segments(path) ==
    CASE path = "/version" -> <<Lit("version")>>
      [] path = "/status" -> <<Lit("status")>>
      [] path = "/protocols" -> <<Lit("protocols")>>
      [] path = "/protocols/bgp" -> <<Lit("protocols"), Lit("bgp")>>
      [] path = "/symbols" -> <<Lit("symbols")>>
      [] path = "/symbols/tables" -> <<Lit("symbols"), Lit("tables")>>
      [] path = "/symbols/protocols" -> <<Lit("symbols"), Lit("protocols")>>
      [] path = "/routes/protocol/:protocol" ->
            <<Lit("routes"), Lit("protocol"), Param("protocol")>>
      [] path = "/routes/table/:table" ->
            <<Lit("routes"), Lit("table"), Param("table")>>
      [] path = "/routes/count/protocol/:protocol" ->
            <<Lit("routes"), Lit("count"), Lit("protocol"), Param("protocol")>>
      [] path = "/routes/count/table/:table" ->
            <<Lit("routes"), Lit("count"), Lit("table"), Param("table")>>
      [] path = "/routes/filtered/:protocol" ->
            <<Lit("routes"), Lit("filtered"), Param("protocol")>>
      [] path = "/routes/noexport/:protocol" ->
            <<Lit("routes"), Lit("noexport"), Param("protocol")>>
      [] path = "/routes/prefix" -> <<Lit("routes"), Lit("prefix")>>
      [] path = "/route/net/:net" ->
            <<Lit("route"), Lit("net"), Param("net")>>
      [] path = "/route/net/:net/table/:table" ->
            <<Lit("route"), Lit("net"), Param("net"), Lit("table"), Param("table")>>
      [] path = "/routes/peer" -> <<Lit("routes"), Lit("peer")>>
      [] path = "/routes/dump" -> <<Lit("routes"), Lit("dump")>>

\* The route table of the specification (section 4.1), each row with the
\* handler the source binds to it.
RouteTable ==
    <<[module |-> "status", path |-> "/version", handle |-> "Version"],
      [module |-> "status", path |-> "/status", handle |-> "Status"],
      [module |-> "protocols", path |-> "/protocols", handle |-> "Protocols"],
      [module |-> "protocols_bgp", path |-> "/protocols/bgp", handle |-> "Bgp"],
      [module |-> "symbols", path |-> "/symbols", handle |-> "Symbols"],
      [module |-> "symbols_tables", path |-> "/symbols/tables", handle |-> "SymbolTables"],
      [module |-> "symbols_protocols", path |-> "/symbols/protocols",
       handle |-> "SymbolProtocols"],
      [module |-> "routes_protocol", path |-> "/routes/protocol/:protocol",
       handle |-> "ProtoRoutes"],
      [module |-> "routes_table", path |-> "/routes/table/:table", handle |-> "TableRoutes"],
      [module |-> "routes_count_protocol", path |-> "/routes/count/protocol/:protocol",
       handle |-> "ProtoCount"],
      [module |-> "routes_count_table", path |-> "/routes/count/table/:table",
       handle |-> "TableCount"],
      [module |-> "routes_filtered", path |-> "/routes/filtered/:protocol",
       handle |-> "RoutesFiltered"],
      [module |-> "routes_noexport", path |-> "/routes/noexport/:protocol",
       handle |-> "RoutesNoExport"],
      [module |-> "routes_prefixed", path |-> "/routes/prefix", handle |-> "RoutesPrefixed"],
      [module |-> "route_net", path |-> "/route/net/:net", handle |-> "RouteNet"],
      [module |-> "route_net", path |-> "/route/net/:net/table/:table",
       handle |-> "RouteNetTable"],
      [module |-> "routes_peer", path |-> "/routes/peer", handle |-> "RoutesPeer"],
      [module |-> "routes_dump", path |-> "/routes/dump", handle |-> "RoutesDump"]>>

RECURSIVE registerEntry(_, _, _)
\* the rows of the table from row k on that belong to module m, registered on r
registerEntry(r, m, k) ==
    IF k > Len(RouteTable) THEN r
    ELSE IF RouteTable[k].module = m
         THEN registerEntry(GET(r, RouteTable[k].path, RouteTable[k].handle), m, k + 1)
         ELSE registerEntry(r, m, k + 1)

RECURSIVE registerFrom(_, _, _)
registerFrom(r, whitelist, i) ==
    IF i > Len(whitelist) THEN r
    ELSE registerFrom(registerEntry(r, whitelist[i], 1), whitelist, i + 1)

\* A mutant of makeRouter: the loop runs over the whitelist and registers the
\* routes of each entry as it meets it, so a repeated entry registers again.
makeRouterPerEntry(config) ==
    registerFrom(New, config.ModulesEnabled, 1)

\* if isModuleEnabled(module, whitelist) { r.GET(path, handle) }
enable(r, module, whitelist, path, handle) ==
    IF isModuleEnabled(module, whitelist) THEN GET(r, path, handle) ELSE r

\* if isModuleEnabled(module, whitelist) { r.GET(path1, handle1); r.GET(path2, handle2) }
enable2(r, module, whitelist, path1, handle1, path2, handle2) ==
    IF isModuleEnabled(module, whitelist)
    THEN GET(GET(r, path1, handle1), path2, handle2)
    ELSE r

makeRouter(config) ==
    LET whitelist == config.ModulesEnabled
        r0 == New
        r1 == enable2(r0, "status", whitelist, "/version", "Version", "/status", "Status")
        r2 == enable(r1, "protocols", whitelist, "/protocols", "Protocols")
        r3 == enable(r2, "protocols_bgp", whitelist, "/protocols/bgp", "Bgp")
        r4 == enable(r3, "symbols", whitelist, "/symbols", "Symbols")
        r5 == enable(r4, "symbols_tables", whitelist, "/symbols/tables", "SymbolTables")
        r6 == enable(r5, "symbols_protocols", whitelist,
                     "/symbols/protocols", "SymbolProtocols")
        r7 == enable(r6, "routes_protocol", whitelist,
                     "/routes/protocol/:protocol", "ProtoRoutes")
        r8 == enable(r7, "routes_table", whitelist, "/routes/table/:table", "TableRoutes")
        r9 == enable(r8, "routes_count_protocol", whitelist,
                     "/routes/count/protocol/:protocol", "ProtoCount")
        r10 == enable(r9, "routes_count_table", whitelist,
                      "/routes/count/table/:table", "TableCount")
        r11 == enable(r10, "routes_filtered", whitelist,
                      "/routes/filtered/:protocol", "RoutesFiltered")
        r12 == enable(r11, "routes_noexport", whitelist,
                      "/routes/noexport/:protocol", "RoutesNoExport")
        r13 == enable(r12, "routes_prefixed", whitelist, "/routes/prefix", "RoutesPrefixed")
        r14 == enable2(r13, "route_net", whitelist, "/route/net/:net", "RouteNet",
                       "/route/net/:net/table/:table", "RouteNetTable")
        r15 == enable(r14, "routes_peer", whitelist, "/routes/peer", "RoutesPeer")
        r16 == enable(r15, "routes_dump", whitelist, "/routes/dump", "RoutesDump")
    IN  r16

\* Whether the concrete path (a sequence of segments) matches the pattern:
\* a static segment matches itself, a placeholder any non-empty segment.
Matches(pattern, path) ==
    /\ Len(pattern) = Len(path)
    /\ \A i \in 1..Len(pattern) :
          IF pattern[i].kind = "param" THEN path[i] # ""
          ELSE path[i] = pattern[i].name

\* The named parameters the router hands to the handler.
Params(pattern, path) ==
    {<<pattern[i].name, path[i]>> : i \in {j \in 1..Len(pattern) : pattern[j].kind = "param"}}

NotFound == [status |-> 404, handle |-> "NotFound", params |-> {}]

\* The router's answer to GET path: the first registered route it matches.
Dispatch(r, path) ==
    LET hits == {i \in 1..Len(r) : r[i].method = "GET" /\ Matches(Segments(r[i].path), path)}
    IN  IF hits = {} THEN NotFound
        ELSE LET i == CHOOSE k \in hits : \A j \in hits : k <= j
             IN  [status |-> 200, handle |-> r[i].handle,
                  params |-> Params(Segments(r[i].path), path)]

----------------------------------------------------------------------------
(* The inputs of main *)

\* every sequence over S of length at most n
BoundedSeq(S, n) == UNION {[1..k -> S] : k \in 0..n}

\* the listen addresses a bird or bird6 section may name
ListenAddrs == {"0.0.0.0:29184", "0.0.0.0:29186"}

\* the values the crt and key settings take: unset, or a path
CrtValues == {"", "/etc/ssl/birdwatcher.crt"}
KeyValues == {"", "/etc/ssl/birdwatcher.key"}

\* the whitelists Spec draws (SpecRouter draws every whitelist up to MaxWhitelist)
SampleWhitelists ==
    {<< >>, <<"status", "routes_peer">>, <<"Status", "protocols", "protocols">>}

\* the configurations LoadConfigs may return with whitelists from W
Configs(W) ==
    [Server : [ModulesEnabled : W, EnableTLS : BOOLEAN, Crt : CrtValues, Key : KeyValues],
     Bird   : [BirdCmd : {"birdc"}, Listen : ListenAddrs],
     Bird6  : [BirdCmd : {"birdc6"}, Listen : ListenAddrs]]

\* LoadConfigs returned an error
LoadError == [error |-> "unreadable or invalid"]

\* the command lines: flag.Parse rejects the last
CommandLines ==
    [ok : {TRUE}, bird6 : BOOLEAN, workerPoolSize : {8, 4}]
        \cup {[ok |-> FALSE, bird6 |-> FALSE, workerPoolSize |-> 8]}

\* the value of bird.IPVersion when main starts
IPVersionInitial == {"4", "6"}

NoConf == [none |-> TRUE]
NoBirdConf == [BirdCmd |-> "", Listen |-> ""]
NoRouter == <<[method |-> "none", path |-> "", handle |-> ""]>>
NoListener == [kind |-> "none", addr |-> "", crt |-> "", key |-> "", bound |-> FALSE]
NoRequest == <<"-">>
NoResponse == [status |-> 0, handle |-> "", params |-> {}]
NoRet == [n |-> 0, err |-> "none"]

Handlers == 1..NumHandlers

\* the request handlers before any request
LogIdle ==
    /\ hpc = [h \in Handlers |-> "idle"]
    /\ harg = [h \in Handlers |-> << >>]
    /\ hcall = [h \in Handlers |-> 0]
    /\ hret = [h \in Handlers |-> NoRet]
    /\ calls = << >>
    /\ printed = << >>
    /\ stdout = << >>

Init ==
    /\ pc = "start"
    /\ args \in CommandLines
    /\ file \in Configs(SampleWhitelists) \cup {LoadError}
    /\ conf = NoConf
    /\ birdConf = NoBirdConf
    /\ IPVersion \in IPVersionInitial
    /\ ipWrites = 0
    /\ WorkerPoolSize = 0
    /\ ClientConf = NoBirdConf
    /\ router = NoRouter
    /\ listener = NoListener
    /\ binds = 0
    /\ fatal = ""
    /\ stages = << >>
    /\ request = NoRequest
    /\ response = NoResponse
    /\ LogIdle

----------------------------------------------------------------------------
(* main *)

\* log.Fatal / log.Fatalln: the message is logged and the process exits
Fatal(msg) ==
    /\ pc' = "terminated"
    /\ fatal' = msg
    /\ stages' = Append(stages, "terminated")

\* the next position of main, entering startup stage st
Enter(st) ==
    /\ pc' = st
    /\ stages' = Append(stages, st)
    /\ fatal' = fatal

\* flag.Parse and bird.WorkerPoolSize = *workerPoolSize; on a bad command line
\* flag.Parse prints the usage and exits
ParseFlags ==
    /\ pc = "start"
    /\ IF args.ok
       THEN Enter("flags-parsed") /\ WorkerPoolSize' = args.workerPoolSize
       ELSE /\ pc' = "terminated"
            /\ fatal' = "usage"
            /\ stages' = Append(stages, "terminated")
            /\ UNCHANGED WorkerPoolSize
    /\ UNCHANGED <<args, file, conf, birdConf, IPVersion, ipWrites, ClientConf,
                   router, listener, binds, httpVars, logVars>>

\* conf, err := LoadConfigs(...); if err != nil { log.Fatal(...) }
LoadConfig ==
    /\ pc = "flags-parsed"
    /\ IF file = LoadError
       THEN Fatal("config") /\ UNCHANGED conf
       ELSE Enter("config-loaded") /\ conf' = file
    /\ UNCHANGED <<args, file, birdConf, IPVersion, ipWrites, WorkerPoolSize,
                   ClientConf, router, listener, binds, httpVars, logVars>>

\* A mutant of TLSIncomplete: || written as &&.
TLSIncompleteBoth(server) ==
    Len(server.Crt) = 0 /\ Len(server.Key) = 0

\* the condition of both TLS checks: a certificate or key path is missing
TLSIncomplete(server) ==
    Len(server.Crt) = 0 \/ Len(server.Key) = 0

\* the first TLS check, right after the configuration is loaded
ValidateTLS ==
    /\ pc = "config-loaded"
    /\ IF conf.Server.EnableTLS /\ TLSIncomplete(conf.Server)
       THEN Fatal("tls")
       ELSE Enter("tls-validated")
    /\ UNCHANGED <<args, file, conf, birdConf, IPVersion, ipWrites, WorkerPoolSize,
                   ClientConf, router, listener, binds, httpVars, logVars>>

\* A mutant of SelectBackend: the bird6 section is taken when -6 is NOT set.
SelectBackendInverted ==
    /\ pc = "tls-validated"
    /\ birdConf' = IF args.bird6 THEN conf.Bird ELSE conf.Bird6
    /\ IPVersion' = IF args.bird6 THEN "6" ELSE IPVersion
    /\ ipWrites' = IF args.bird6 THEN ipWrites + 1 ELSE ipWrites
    /\ Enter("backend-selected")
    /\ UNCHANGED <<args, file, conf, WorkerPoolSize, ClientConf, router, listener,
                   binds, httpVars, logVars>>

\* A mutant of SelectBackend: bird.IPVersion is assigned on both branches.
SelectBackendTagsBoth ==
    /\ pc = "tls-validated"
    /\ birdConf' = IF args.bird6 THEN conf.Bird6 ELSE conf.Bird
    /\ IPVersion' = IF args.bird6 THEN "6" ELSE "4"
    /\ ipWrites' = ipWrites + 1
    /\ Enter("backend-selected")
    /\ UNCHANGED <<args, file, conf, WorkerPoolSize, ClientConf, router, listener,
                   binds, httpVars, logVars>>

\* birdConf := conf.Bird; if *bird6 { birdConf = conf.Bird6; bird.IPVersion = "6" }
SelectBackend ==
    /\ pc = "tls-validated"
    /\ birdConf' = IF args.bird6 THEN conf.Bird6 ELSE conf.Bird
    /\ IPVersion' = IF args.bird6 THEN "6" ELSE IPVersion
    /\ ipWrites' = IF args.bird6 THEN ipWrites + 1 ELSE ipWrites
    /\ Enter("backend-selected")
    /\ UNCHANGED <<args, file, conf, WorkerPoolSize, ClientConf, router, listener,
                   binds, httpVars, logVars>>

\* PrintServiceInfo and the configuration pushed to the collaborators:
\* bird.ClientConf = birdConf (the other sections are forwarded as they are
\* and are no part of the model's configuration)
Configure ==
    /\ pc = "backend-selected"
    /\ ClientConf' = birdConf
    /\ pc' = "configured"
    /\ UNCHANGED <<args, file, conf, birdConf, IPVersion, ipWrites, WorkerPoolSize,
                   router, listener, binds, fatal, stages, httpVars, logVars>>

\* r := makeRouter(conf.Server)
BuildRouter ==
    /\ pc = "configured"
    /\ router' = makeRouter(conf.Server)
    /\ Enter("router-built")
    /\ UNCHANGED <<args, file, conf, birdConf, IPVersion, ipWrites, WorkerPoolSize,
                   ClientConf, listener, binds, httpVars, logVars>>

\* A mutant of Listen: the two branches of the final if are swapped.
ListenSwapped ==
    /\ pc = "router-built"
    /\ \E bound \in BOOLEAN :
          IF ~conf.Server.EnableTLS
          THEN IF TLSIncomplete(conf.Server)
               THEN Fatal("tls-bind") /\ UNCHANGED <<listener, binds>>
               ELSE /\ binds' = binds + 1
                    /\ listener' = [kind |-> "tls", addr |-> birdConf.Listen,
                                    crt |-> conf.Server.Crt, key |-> conf.Server.Key,
                                    bound |-> bound]
                    /\ IF bound THEN Enter("serving") ELSE Fatal("serve")
          ELSE /\ binds' = binds + 1
               /\ listener' = [kind |-> "plain", addr |-> birdConf.Listen,
                               crt |-> "", key |-> "", bound |-> bound]
               /\ IF bound THEN Enter("serving") ELSE Fatal("serve")
    /\ UNCHANGED <<args, file, conf, birdConf, IPVersion, ipWrites, WorkerPoolSize,
                   ClientConf, router, httpVars, logVars>>

\* The logger set-up and the final if of main: the second TLS check, then
\* ListenAndServeTLS or ListenAndServe on birdConf.Listen.  The call binds
\* (bound) and serves, or returns an error at once, which log.Fatal reports.
Listen ==
    /\ pc = "router-built"
    /\ \E bound \in BOOLEAN :
          IF conf.Server.EnableTLS
          THEN IF TLSIncomplete(conf.Server)
               THEN Fatal("tls-bind") /\ UNCHANGED <<listener, binds>>
               ELSE /\ binds' = binds + 1
                    /\ listener' = [kind |-> "tls", addr |-> birdConf.Listen,
                                    crt |-> conf.Server.Crt, key |-> conf.Server.Key,
                                    bound |-> bound]
                    /\ IF bound THEN Enter("serving") ELSE Fatal("serve")
          ELSE /\ binds' = binds + 1
               /\ listener' = [kind |-> "plain", addr |-> birdConf.Listen,
                               crt |-> "", key |-> "", bound |-> bound]
               /\ IF bound THEN Enter("serving") ELSE Fatal("serve")
    /\ UNCHANGED <<args, file, conf, birdConf, IPVersion, ipWrites, WorkerPoolSize,
                   ClientConf, router, httpVars, logVars>>

\* A mutant of ServeReturns: the serve error is logged and the bind retried.
ServeReturnsRetry ==
    /\ pc = "serving"
    /\ binds < 2
    /\ listener' = [listener EXCEPT !.bound = FALSE]
    /\ pc' = "router-built"
    /\ UNCHANGED <<args, file, conf, birdConf, IPVersion, ipWrites, WorkerPoolSize,
                   ClientConf, router, binds, fatal, stages, httpVars, logVars>>

\* ListenAndServe / ListenAndServeTLS returns its error while serving, and
\* log.Fatal ends the process
ServeReturns ==
    /\ pc = "serving"
    /\ listener' = [listener EXCEPT !.bound = FALSE]
    /\ Fatal("serve")
    /\ UNCHANGED <<args, file, conf, birdConf, IPVersion, ipWrites, WorkerPoolSize,
                   ClientConf, router, binds, httpVars, logVars>>

----------------------------------------------------------------------------
(* Requests *)

\* the values a placeholder segment takes in the requests of the model
ParamValues == {"bgp1", "table"}

\* the concrete paths that match the pattern, with placeholders from ParamValues
Concrete(pattern) ==
    {[i \in 1..Len(pattern) |->
        IF pattern[i].kind = "param" THEN f[i] ELSE pattern[i].name] :
     f \in [1..Len(pattern) -> ParamValues]}

\* the router with every known module enabled
FullRouter == makeRouter([ModulesEnabled |-> AllModules])

\* paths that match no pattern of the table
StrayPaths ==
    {<< >>, <<"Status">>, <<"routes", "protocol", "">>, <<"route", "net", "bgp1", "table">>}

\* the GET requests of the model
RequestPaths ==
    UNION {Concrete(Segments(FullRouter[i].path)) : i \in 1..Len(FullRouter)}
        \cup StrayPaths

\* the router serves GET path
ServeHTTP(path) ==
    /\ pc = "serving"
    /\ request' = path
    /\ response' = Dispatch(router, path)
    /\ UNCHANGED <<mainVars, logVars>>

----------------------------------------------------------------------------
(* The access-log adapter *)

\* the bytes of the lines of the model
Bytes == {"a", "\n"}

\* the lines the logging middleware passes to Write in the model: a usual
\* line, one without its newline, one with a newline inside, and the empty one
Lines == {<<"a", "\n">>, <<"a", "a">>, <<"\n", "a">>, << >>}

\* the prefix of myquerylog, standing for "<ts> QUERY: "
LogPrefix == <<"Q">>

\* string(p): a string of the same bytes
BytesToString(p) == [i \in 1..Len(p) |-> p[i]]

\* logger.Output with flags 0: the prefix, the string, and a newline unless
\* the string ends with one; one write to os.Stdout under the logger's mutex
Output(str) ==
    LogPrefix \o str \o
        (IF Len(str) = 0 \/ str[Len(str)] # "\n" THEN <<"\n">> ELSE << >>)

\* m.logger.Print(s) for call c: the logger formats s and writes it in one
\* piece; the write to os.Stdout succeeds (ok) or fails, and Print reports
\* neither
LoggerPrint(c, str, ok) ==
    /\ printed' = Append(printed, [call |-> c, s |-> str, ok |-> ok])
    /\ stdout' = IF ok THEN stdout \o Output(str) ELSE stdout

\* the logging middleware of handler h calls mylogger.Write(p)
BeginWrite(h, p) ==
    /\ pc = "serving"
    /\ hpc[h] = "idle"
    /\ Len(calls) < MaxWrites
    /\ hpc' = [hpc EXCEPT ![h] = "write"]
    /\ harg' = [harg EXCEPT ![h] = p]
    /\ calls' = Append(calls, p)
    /\ hcall' = [hcall EXCEPT ![h] = Len(calls) + 1]
    /\ hret' = [hret EXCEPT ![h] = NoRet]
    /\ UNCHANGED <<mainVars, httpVars, printed, stdout>>

\* A mutant of Write: the result of the underlying write is passed on.
WritePassesError(h) ==
    /\ hpc[h] = "write"
    /\ \E ok \in BOOLEAN :
          /\ LoggerPrint(hcall[h], BytesToString(harg[h]), ok)
          /\ hret' = [hret EXCEPT ![h] =
                        IF ok THEN [n |-> Len(harg[h]), err |-> "nil"]
                        ELSE [n |-> 0, err |-> "write failed"]]
    /\ hpc' = [hpc EXCEPT ![h] = "done"]
    /\ UNCHANGED <<mainVars, httpVars, harg, hcall, calls>>

\* A mutant of Write: p is handed to the logger byte by byte, one Print call
\* for each byte.
WriteByBytes(h) ==
    /\ hpc[h] = "write"
    /\ LET done == Cardinality({i \in 1..Len(printed) : printed[i].call = hcall[h]})
           rest == SubSeq(harg[h], done + 1, Len(harg[h]))
       IN  /\ \E ok \in BOOLEAN :
                 LoggerPrint(hcall[h],
                             BytesToString(IF Len(rest) = 0 THEN << >> ELSE <<rest[1]>>), ok)
           /\ IF Len(rest) <= 1
              THEN /\ hret' = [hret EXCEPT ![h] = [n |-> Len(harg[h]), err |-> "nil"]]
                   /\ hpc' = [hpc EXCEPT ![h] = "done"]
              ELSE UNCHANGED <<hret, hpc>>
    /\ UNCHANGED <<mainVars, httpVars, harg, hcall, calls>>

\* MyLogger.Write: m.logger.Print(string(p)); return len(p), nil
Write(h) ==
    /\ hpc[h] = "write"
    /\ \E ok \in BOOLEAN :
          LoggerPrint(hcall[h], BytesToString(harg[h]), ok)
    /\ hret' = [hret EXCEPT ![h] = [n |-> Len(harg[h]), err |-> "nil"]]
    /\ hpc' = [hpc EXCEPT ![h] = "done"]
    /\ UNCHANGED <<mainVars, httpVars, harg, hcall, calls>>

\* the middleware takes the result and the handler is free for its next request
EndWrite(h) ==
    /\ hpc[h] = "done"
    /\ hpc' = [hpc EXCEPT ![h] = "idle"]
    /\ harg' = [harg EXCEPT ![h] = << >>]
    /\ hret' = [hret EXCEPT ![h] = NoRet]
    /\ UNCHANGED <<mainVars, httpVars, hcall, calls, printed, stdout>>

----------------------------------------------------------------------------
(* The specifications *)

Next ==
    \/ ParseFlags
    \/ LoadConfig
    \/ ValidateTLS
    \/ SelectBackend
    \/ Configure
    \/ BuildRouter
    \/ Listen
    \/ ServeReturns
    \/ \E path \in RequestPaths : ServeHTTP(path)

Spec == Init /\ [][Next]_vars

\* a configuration without TLS whose whitelist is w
PlainConfig(w) ==
    [Server |-> [ModulesEnabled |-> w, EnableTLS |-> FALSE, Crt |-> "", Key |-> ""],
     Bird   |-> [BirdCmd |-> "birdc", Listen |-> "0.0.0.0:29184"],
     Bird6  |-> [BirdCmd |-> "birdc6", Listen |-> "0.0.0.0:29186"]]

\* main just before r := makeRouter(conf.Server), started without -6 on a
\* configuration without TLS, for every whitelist of length up to MaxWhitelist
InitRouter ==
    /\ pc = "configured"
    /\ args = [ok |-> TRUE, bird6 |-> FALSE, workerPoolSize |-> 8]
    /\ file \in {PlainConfig(w) : w \in BoundedSeq(ModuleNames, MaxWhitelist)}
    /\ conf = file
    /\ birdConf = conf.Bird
    /\ IPVersion = "4"
    /\ ipWrites = 0
    /\ WorkerPoolSize = 8
    /\ ClientConf = conf.Bird
    /\ router = NoRouter
    /\ listener = NoListener
    /\ binds = 0
    /\ fatal = ""
    /\ stages = <<"flags-parsed", "config-loaded", "tls-validated", "backend-selected">>
    /\ request = NoRequest
    /\ response = NoResponse
    /\ LogIdle

NextRouter ==
    \/ BuildRouter
    \/ Listen
    \/ ServeReturns
    \/ \E path \in RequestPaths : ServeHTTP(path)

SpecRouter == InitRouter /\ [][NextRouter]_vars

\* main serving, started without -6 on a configuration without TLS
InitLog ==
    /\ pc = "serving"
    /\ args = [ok |-> TRUE, bird6 |-> FALSE, workerPoolSize |-> 8]
    /\ file = PlainConfig(<<"status", "routes_peer">>)
    /\ conf = file
    /\ birdConf = conf.Bird
    /\ IPVersion = "4"
    /\ ipWrites = 0
    /\ WorkerPoolSize = 8
    /\ ClientConf = conf.Bird
    /\ router = makeRouter(conf.Server)
    /\ listener = [kind |-> "plain", addr |-> birdConf.Listen, crt |-> "", key |-> "",
                   bound |-> TRUE]
    /\ binds = 1
    /\ fatal = ""
    /\ stages = <<"flags-parsed", "config-loaded", "tls-validated", "backend-selected",
                  "router-built", "serving">>
    /\ request = NoRequest
    /\ response = NoResponse
    /\ LogIdle

NextLog ==
    \/ \E h \in Handlers, p \in Lines : BeginWrite(h, p)
    \/ \E h \in Handlers : Write(h)
    \/ \E h \in Handlers : EndWrite(h)

SpecLog == InitLog /\ [][NextLog]_vars

----------------------------------------------------------------------------
(* The claims about the route builder, checked under SpecRouter *)

Range(seq) == {seq[i] : i \in 1..Len(seq)}

\* the whitelist the router of the state was built from
Whitelist == conf.Server.ModulesEnabled

\* main has just built the router (it never changes afterwards)
RouterBuilt == pc = "router-built" /\ router # NoRouter

\* C1: for every whitelist and every row of the route table, a GET request
\* to a path matching the row's pattern is dispatched to the row's handler
\* if the row's module is in the whitelist and answered not-found if it is
\* not; with "status" enabled /version and /status are both dispatched.
RoutesGatedByWhitelist ==
    request # NoRequest =>
        \A k \in 1..Len(RouteTable) :
            Matches(Segments(RouteTable[k].path), request) =>
                IF RouteTable[k].module \in Range(Whitelist)
                THEN response.status = 200 /\ response.handle = RouteTable[k].handle
                ELSE response = NotFound

\* /status is dispatched with "status" enabled after another module
StatusDispatched ==
    /\ Len(Whitelist) = 2
    /\ Whitelist[1] = "routes_peer"
    /\ Whitelist[2] = "status"
    /\ request = <<"status">>
    /\ response.status = 200
    /\ response.handle = "Status"

\* no path is registered twice on r
NoRouteTwice(r) ==
    \A i, j \in 1..Len(r) : r[i].path = r[j].path => i = j

RouteSet(r) == Range(r)

\* C4: a whitelist entry repeated any number of times changes nothing: the
\* router of the whitelist with one of its entries appended once or twice
\* has the same route set, every route of an enabled module is registered
\* exactly once, and no route is registered twice.
RepeatedEntriesIdempotent ==
    RouterBuilt =>
        /\ NoRouteTwice(router)
        /\ \A k \in 1..Len(RouteTable) :
              RouteTable[k].module \in Range(Whitelist) =>
                  Cardinality({i \in 1..Len(router) :
                                  router[i].path = RouteTable[k].path}) = 1
        /\ \A i \in 1..Len(Whitelist) :
              LET once  == makeRouter([ModulesEnabled |-> Append(Whitelist, Whitelist[i])])
                  twice == makeRouter([ModulesEnabled |->
                                          Append(Append(Whitelist, Whitelist[i]), Whitelist[i])])
              IN  /\ NoRouteTwice(once)
                  /\ NoRouteTwice(twice)
                  /\ RouteSet(once) = RouteSet(router)
                  /\ RouteSet(twice) = RouteSet(router)

\* a router built from a whitelist that names "status" twice
StatusNamedTwice ==
    /\ RouterBuilt
    /\ Whitelist = <<"status", "status">>
    /\ Len(router) = 2

IsKnown(m) == m \in KnownModules

\* C5: an entry that is not exactly a known module name enables nothing and
\* stops nothing: the router is the router of the whitelist without such
\* entries, and "Status" does not enable the routes of "status".
UnknownEntriesInert ==
    RouterBuilt =>
        /\ router = makeRouter([ModulesEnabled |-> SelectSeq(Whitelist, IsKnown)])
        /\ "status" \notin Range(Whitelist) =>
              \A i \in 1..Len(router) : router[i].path \notin {"/status", "/version"}

\* a router built from "Status" and a known module
StatusMisspelt ==
    /\ RouterBuilt
    /\ Whitelist = <<"Status", "protocols">>
    /\ Len(router) = 1
    /\ router[1].path = "/protocols"

----------------------------------------------------------------------------
(* The claims about main, checked under Spec *)

ConfLoaded == conf # NoConf

\* TLS is enabled in the loaded configuration and crt or key is empty
TLSBad ==
    /\ ConfLoaded
    /\ conf.Server.EnableTLS
    /\ (conf.Server.Crt = "" \/ conf.Server.Key = "")

\* C2: with TLS enabled and an empty certificate or key path, main ends at
\* the fatal log of the TLS check and never calls ListenAndServe or
\* ListenAndServeTLS.
NoBindWithoutTLSMaterial ==
    TLSBad =>
        /\ binds = 0
        /\ listener = NoListener
        /\ pc \in {"config-loaded", "terminated"}
        /\ pc = "terminated" => fatal = "tls"

\* main ended at the TLS check with a certificate and no key
AbortedForMissingKey ==
    /\ TLSBad
    /\ conf.Server.Crt # ""
    /\ conf.Server.Key = ""
    /\ pc = "terminated"
    /\ fatal = "tls"

StageOrder ==
    <<"flags-parsed", "config-loaded", "tls-validated", "backend-selected",
      "router-built", "serving">>

IsPrefix(s, t) ==
    Len(s) <= Len(t) /\ \A i \in 1..Len(s) : s[i] = t[i]

\* the startup stage main is in at position p
StageOf(p) == IF p = "configured" THEN "backend-selected" ELSE p

\* C6: the stages are entered in the order flags-parsed, config-loaded,
\* tls-validated, backend-selected, router-built, serving, each once, with
\* no step back; a failed gate (configuration load, TLS check, bind or
\* serve) leads to terminated at once, nothing is retried and no later
\* stage is entered.
StartupInOrder ==
    /\ IF pc = "terminated"
       THEN /\ stages[Len(stages)] = "terminated"
            /\ IsPrefix(SubSeq(stages, 1, Len(stages) - 1), StageOrder)
       ELSE /\ IsPrefix(stages, StageOrder)
            /\ pc # "start" => stages[Len(stages)] = StageOf(pc)
    /\ pc = "start" <=> stages = << >>
    /\ file = LoadError => \A i \in 1..Len(stages) : stages[i] \in {"flags-parsed", "terminated"}
    /\ TLSBad => \A i \in 1..Len(stages) :
                    stages[i] \in {"flags-parsed", "config-loaded", "terminated"}
    /\ binds <= 1
    /\ (listener # NoListener /\ ~listener.bound) => pc = "terminated"

\* main went through every stage and then ended on a serve error
ServedThenTerminated ==
    /\ pc = "terminated"
    /\ fatal = "serve"
    /\ stages = StageOrder \o <<"terminated">>

\* main is past the backend selection
BackendSelected == \E i \in 1..Len(stages) : stages[i] = "backend-selected"

\* the section the -6 flag selects
Selected == IF args.bird6 THEN conf.Bird6 ELSE conf.Bird

\* C7: after the backend selection the active configuration is the bird6
\* section if and only if -6 is set and the primary section otherwise; it
\* is the configuration pushed to bird.ClientConf and the one whose listen
\* address the listener binds to.
ActiveBackendFollowsFlag ==
    /\ BackendSelected => birdConf = Selected
    /\ (BackendSelected /\ pc # "backend-selected") => ClientConf = Selected
    /\ listener # NoListener => listener.addr = Selected.Listen

\* serving on the bird6 address, which differs from the primary one
ServingOnBird6 ==
    /\ pc = "serving"
    /\ args.bird6
    /\ conf.Bird.Listen # conf.Bird6.Listen
    /\ ClientConf = conf.Bird6
    /\ listener.addr = conf.Bird6.Listen

\* C8: the listener is a TLS listener with the configured certificate and
\* key if TLS is enabled and a plain one if it is disabled, in the serving
\* stage and in every bind attempt.
ListenerMatchesTLS ==
    /\ pc = "serving" => listener # NoListener /\ listener.bound
    /\ listener # NoListener =>
          IF conf.Server.EnableTLS
          THEN /\ listener.kind = "tls"
               /\ listener.crt = conf.Server.Crt
               /\ listener.key = conf.Server.Key
          ELSE listener.kind = "plain"

\* serving TLS with the configured certificate and key
ServingTLS ==
    /\ pc = "serving"
    /\ conf.Server.EnableTLS
    /\ listener.kind = "tls"
    /\ listener.crt = "/etc/ssl/birdwatcher.crt"
    /\ listener.key = "/etc/ssl/birdwatcher.key"

\* C10: main assigns bird.IPVersion at most once, in the backend selection
\* and only when -6 is set; without -6 the tag keeps its value, and no step
\* after the backend selection (router build, listen, requests) assigns it.
IPVersionWrittenOnlyBySelection ==
    [][/\ ipWrites' # ipWrites =>
            /\ pc = "tls-validated" /\ pc' = "backend-selected"
            /\ args.bird6
            /\ ipWrites = 0 /\ ipWrites' = 1
            /\ IPVersion' = "6"
       /\ IPVersion' # IPVersion => ipWrites' # ipWrites
       /\ ~args.bird6 => IPVersion' = IPVersion /\ ipWrites' = ipWrites]_vars

\* a request served after -6 set the tag
RequestServedWithTagSet ==
    /\ pc = "serving"
    /\ args.bird6
    /\ ipWrites = 1
    /\ IPVersion = "6"
    /\ request # NoRequest

----------------------------------------------------------------------------
(* The claims about MyLogger.Write, checked under SpecLog *)

\* the entries of printed made for call c
PrintsOf(c) == {i \in 1..Len(printed) : printed[i].call = c}

\* C3: Write(p) returns (len(p), nil) whether the logger's write succeeds or
\* fails, and hands p to the logger exactly once with the same bytes.
WriteReturnsLenNoError ==
    \A h \in Handlers :
        hpc[h] = "done" =>
            /\ hret[h] = [n |-> Len(harg[h]), err |-> "nil"]
            /\ Cardinality(PrintsOf(hcall[h])) = 1
            /\ \A i \in PrintsOf(hcall[h]) : printed[i].s = harg[h]

\* Write returned for a two-byte line whose write to os.Stdout failed
ReturnedAfterFailedWrite ==
    \E h \in Handlers :
        /\ hpc[h] = "done"
        /\ Len(harg[h]) = 2
        /\ hret[h].n = 2
        /\ \E i \in PrintsOf(hcall[h]) : ~printed[i].ok

RECURSIVE Emitted(_)
\* the bytes on os.Stdout after the Print calls pr, each written in one piece
Emitted(pr) ==
    IF pr = << >> THEN << >>
    ELSE Emitted(SubSeq(pr, 1, Len(pr) - 1))
            \o (IF pr[Len(pr)].ok THEN Output(pr[Len(pr)].s) ELSE << >>)

\* C9: under every interleaving of concurrent Write calls the logger is
\* handed one complete line for each call, and its output is these lines
\* one after the other, none inside another.
WholeLinesUnderInterleaving ==
    /\ \A i \in 1..Len(printed) : printed[i].s = calls[printed[i].call]
    /\ \A c \in 1..Len(calls) :
          \/ Cardinality(PrintsOf(c)) = 1
          \/ /\ PrintsOf(c) = {}
             /\ \E h \in Handlers : hpc[h] = "write" /\ hcall[h] = c
    /\ stdout = Emitted(printed)

\* two calls in flight at once, the later call printed first
PrintedOutOfCallOrder ==
    /\ Len(printed) = 2
    /\ printed[1].call = 2
    /\ printed[2].call = 1
    /\ printed[1].ok /\ printed[2].ok
    /\ calls[1] = <<"a", "\n">>
    /\ calls[2] = <<"a", "a">>
    /\ stdout = <<"Q", "a", "a", "\n", "Q", "a", "\n">>

====
